---- MODULE Spec2Model ----
(***************************************************************************)
(* Model of the Stock-Market trading bot: src/src/bot.py (run_once and its *)
(* helpers) and src/src/bst.py (the score-ordered binary search tree).     *)
(*                                                                         *)
(* Numbers.  Prices, cash and share counts are small integers.  Averages   *)
(* and trends are exact rationals <<numerator, denominator>> with a        *)
(* positive denominator, so sma() is a true quotient and not an integer    *)
(* division.  Python's binary floats agree with the rationals on the small *)
(* integers used here.                                                     *)
(*                                                                         *)
(* Dates.  A datetime is the number of days since Epoch; the strings       *)
(* "%Y-%m-%d" kept in state.json are triples <<year, month, day>>.         *)
(* None is the empty tuple.                                                *)
(***************************************************************************)
EXTENDS Integers, Sequences, FiniteSets, Bags, TLC

(***************************************************************************)
(* Bounds of the model.                                                    *)
(***************************************************************************)
MaxDay == 2
MaxCycles == 2
MaxCash == 4
MaxHeld == 1
MaxInserts == 4
KeyMax == 1
MaxPrice == 3
MaxLen == 4

Symbols == {"A", "B"}
Stale == "Z"

VARIABLES
    pc,         \* where run_once is: "idle" (never called), "clock", "sell", "buy", "save",
                \* or how it left: "closed" (line 250), "done" (line 291), "raised"
    settings,   \* the Settings record load_settings returns (the environment)
    stateFile,  \* state.json: last_trade_day, symbol -> <<y, m, d>>
    state,      \* run_once's local state["last_trade_day"]
    today,      \* run_once's local today (days since Epoch); the wall clock between cycles
    cash,       \* run_once's local running cash
    account,    \* account.cash as the running cycle read it (lines 218-219)
    ranked,     \* run_once's local ranking
    idx,        \* position of the running for loop in ranked (1-based)
    pos,        \* the broker's open positions, symbol -> shares
    bars,       \* the daily closes the data provider returned to the running cycle
    orders,     \* the orders submitted to the broker in this cycle, in order
    out,        \* the decision lines printed by the running cycle, in order
    saves,      \* the number of save_state calls of this cycle
    exc,        \* the exception that ended this cycle, None if none did
    lastTrade,  \* history: the day of the last order submitted per symbol (-1: none)
    unsaved,    \* history: symbols whose last order's cycle raised before save_state
    cycles,     \* history: the number of run_once calls so far
    root,       \* BST._root: index into nodes, 0 is None
    nodes,      \* the heap of BSTNode objects
    inserted,   \* history: the (key, value) pairs given to BST.insert, in order
    scoreArgs,  \* the closes and windows of the last scoring of one symbol
    scoreResult \* what that scoring gave: <<entry>>, or <<>> if it raised

botVars == <<pc, settings, stateFile, state, today, cash, account, ranked, idx, pos, bars,
             orders, out, saves, exc, lastTrade, unsaved, cycles>>
bstVars == <<root, nodes, inserted>>
scoreVars == <<scoreArgs, scoreResult>>
vars == <<botVars, bstVars, scoreVars>>

None == <<>>

RECURSIVE Sum(_)
Sum(s) == IF s = <<>> THEN 0 ELSE s[1] + Sum(Tail(s))

(***************************************************************************)
(* Rationals.                                                              *)
(***************************************************************************)
RatSub(a, b) == <<a[1] * b[2] - b[1] * a[2], a[2] * b[2]>>
RatLess(a, b) == a[1] * b[2] < b[1] * a[2]
RatEq(a, b) == a[1] * b[2] = b[1] * a[2]
\* a trend test that lets every nonzero trend through
RatPosNonzero(a) == a[1] # 0

RatPos(a) == a[1] > 0

(***************************************************************************)
(* Calendar: _format_day, _parse_day, days_since.                          *)
(***************************************************************************)
Epoch == <<2026, 1, 30>>
MonthLen == <<31, 28, 31, 30, 31, 30, 31, 31, 30, 31, 30, 31>>

RECURSIVE DaysBeforeMonth(_)
DaysBeforeMonth(m) == IF m = 1 THEN 0 ELSE MonthLen[m - 1] + DaysBeforeMonth(m - 1)

\* day of the year (1-based) of a date in Epoch's year
DayOfYear(date) == DaysBeforeMonth(date[2]) + date[3]

RECURSIVE MonthOf(_, _)
MonthOf(doy, m) == IF doy <= MonthLen[m] THEN <<m, doy>> ELSE MonthOf(doy - MonthLen[m], m + 1)

\* dt.strftime("%Y-%m-%d")
FormatDay(dt) ==
    LET md == MonthOf(DayOfYear(Epoch) + dt, 1)
    IN  <<Epoch[1], md[1], md[2]>>

\* _parse_day that reads the day of the month and drops the month
ParseDayOfMonth(s) == IF s = None THEN None ELSE <<s[3] - Epoch[3]>>

\* datetime.strptime(s, "%Y-%m-%d"), None for None or ""
ParseDay(s) == IF s = None THEN None ELSE <<DayOfYear(s) - DayOfYear(Epoch)>>

NeverDays == 1000000000

DaysSince(last_day, tday) ==
    LET last == ParseDay(last_day)
    IN  IF last = None THEN NeverDays ELSE tday - last[1]

\* dict.get(sym)
Get(dict, sym) == IF sym \in DOMAIN dict THEN dict[sym] ELSE None

\* an assignment that forgets every other key of the dict
PutFresh(dict, sym, value) == [s \in {sym} |-> value]

\* dict[sym] = value
Put(dict, sym, value) == [s \in DOMAIN dict \cup {sym} |-> IF s = sym THEN value ELSE dict[s]]

(***************************************************************************)
(* Trend Scorer and ranking: sma, get_last_n_closes, rank_symbols.         *)
(***************************************************************************)
\* sum(prices) / len(prices)
Sma(prices) == <<Sum(prices), Len(prices)>>

\* the slice [:n] for [-n:]: the oldest n closes
LastNFirst(seq, n) == SubSeq(seq, 1, IF n < Len(seq) THEN n ELSE Len(seq))

\* seq[-n:] : the last n elements, the whole list when n = 0 or n >= len(seq)
LastN(seq, n) ==
    IF n = 0 \/ n >= Len(seq) THEN seq ELSE SubSeq(seq, Len(seq) - n + 1, Len(seq))

\* get_last_n_closes raises when the provider has fewer than n closes
NotEnoughBars(closes, n) == Len(closes) < n

\* one pass of rank_symbols' loop body: the tuple appended to ranked
ScoreEntry(sym, closes, short_window, long_window) ==
    LET closes_long == LastN(closes, long_window)
        closes_short == LastN(closes_long, short_window)
        short_avg == Sma(closes_short)
        long_avg == Sma(closes_long)
    IN  [sym |-> sym, trend |-> RatSub(short_avg, long_avg), short_avg |-> short_avg,
         long_avg |-> long_avg, latest |-> closes_long[Len(closes_long)]]

\* list.sort(key=trend, reverse=True) is stable: an entry goes after every entry
\* whose trend is greater than or equal to its own
RECURSIVE InsertSorted(_, _)
InsertSorted(sorted, e) ==
    IF sorted = <<>> THEN <<e>>
    ELSE IF RatLess(sorted[1].trend, e.trend) THEN <<e>> \o sorted
         ELSE <<sorted[1]>> \o InsertSorted(Tail(sorted), e)

RECURSIVE SortDescending(_)
SortDescending(list) ==
    IF list = <<>> THEN <<>>
    ELSE InsertSorted(SortDescending(SubSeq(list, 1, Len(list) - 1)), list[Len(list)])

\* the first symbol of the watchlist whose fetch raises, 0 if none does
RECURSIVE FirstShort(_, _, _, _)
FirstShort(symbols, data, n, i) ==
    IF i > Len(symbols) THEN 0
    ELSE IF NotEnoughBars(data[symbols[i]], n) THEN i
         ELSE FirstShort(symbols, data, n, i + 1)

RankSymbols(symbols, data, short_window, long_window) ==
    SortDescending([i \in 1..Len(symbols) |->
        ScoreEntry(symbols[i], data[symbols[i]], short_window, long_window)])

(***************************************************************************)
(* The environment: settings, the provider's histories, state.json.        *)
(***************************************************************************)
Watchlist == <<"A", "B">>

Config(w, s) ==
    [watchlist |-> Watchlist, max_shares |-> 2, shares_per_trade |-> 1,
     wait_days |-> w, short_window |-> s, long_window |-> 2]

\* the Settings load_settings can return: with a cooldown, without one, and
\* misconfigured (short_window > long_window); load_settings checks none of it
Configs == {Config(2, 1), Config(0, 1), Config(2, 3)}

\* what the provider has for a symbol: too few closes for long_window = 2,
\* a rising, a falling and a flat pair of closes
Histories == {<<1>>, <<1, 2>>, <<2, 1>>, <<2, 2>>}

EmptyDict == [s \in {} |-> None]

NoBars == [s \in Symbols |-> <<>>]

\* load_state: {} when state.json does not exist
LoadState(file) == IF file.exists THEN file.last_trade_day ELSE EmptyDict

\* a save_state that writes an empty map
SaveStateEmpty(st) == [exists |-> TRUE, last_trade_day |-> EmptyDict]

\* save_state
SaveState(st) == [exists |-> TRUE, last_trade_day |-> st]

Line(kind, sym, qty, waited, under_max, can_afford) ==
    [kind |-> kind, sym |-> sym, qty |-> qty, waited |-> waited,
     under_max |-> under_max, can_afford |-> can_afford]

Order(side, sym, qty) == [side |-> side, sym |-> sym, qty |-> qty]

\* current_position_qty
CurrentPositionQty(sym) == pos[sym]

\* what an order does to the broker's position: it fills at once or not at all
Fills(sym, qty) == {pos, [pos EXCEPT ![sym] = qty]}

Traded == {orders[i].sym : i \in 1..Len(orders)}

\* run_once's frame is gone: it returned or raised
Return(how) ==
    /\ pc' = how
    /\ state' = EmptyDict
    /\ cash' = 0
    /\ account' = 0
    /\ ranked' = <<>>
    /\ idx' = 0
    /\ out' = <<>>
    /\ bars' = NoBars

\* an exception leaves run_once before save_state
Raise(e, traded) ==
    /\ Return("raised")
    /\ exc' = e
    /\ unsaved' = unsaved \cup traded

Init ==
    /\ pc = "idle"
    /\ settings \in Configs
    /\ stateFile \in {[exists |-> FALSE, last_trade_day |-> EmptyDict],
                      SaveState(Put(EmptyDict, Stale, FormatDay(0)))}
    /\ state = EmptyDict
    /\ today = 0
    /\ cash = 0
    /\ account = 0
    /\ ranked = <<>>
    /\ idx = 0
    /\ pos \in [Symbols -> 0..MaxHeld]
    /\ bars = NoBars
    /\ orders = <<>>
    /\ out = <<>>
    /\ saves = 0
    /\ exc = None
    /\ lastTrade = [s \in Symbols |-> -1]
    /\ unsaved = {}
    /\ cycles = 0
    /\ root = 0
    /\ nodes = <<>>
    /\ inserted = <<>>
    /\ scoreArgs = [closes |-> <<>>, short_window |-> 0, long_window |-> 0]
    /\ scoreResult = <<>>

(***************************************************************************)
(* run_once, lines 208-240: settings, state, clock, account cash, ranking. *)
(* d is the wall clock, c the account's cash, data the provider's closes.  *)
(***************************************************************************)
RunOnce ==
    /\ pc \in {"idle", "closed", "done", "raised"}
    /\ cycles < MaxCycles
    /\ cycles' = cycles + 1
    /\ \E d \in today..MaxDay, data \in [Symbols -> Histories] :
        LET k == FirstShort(settings.watchlist, data, settings.long_window, 1)
        IN  /\ today' = d
            /\ orders' = <<>>
            /\ saves' = 0
            /\ IF k # 0
               THEN /\ Raise(<<"NotEnoughBars", settings.watchlist[k]>>, {})
               ELSE /\ pc' = "clock"
                    /\ state' = LoadState(stateFile)
                    /\ \E c \in 0..MaxCash : cash' = c /\ account' = c
                    /\ bars' = data
                    /\ ranked' = RankSymbols(settings.watchlist, data,
                                             settings.short_window, settings.long_window)
                    /\ idx' = 0
                    /\ out' = <<>>
                    /\ exc' = None
                    /\ unsaved' = unsaved
    /\ UNCHANGED <<settings, stateFile, pos, lastTrade, bstVars, scoreVars>>

(***************************************************************************)
(* run_once, lines 242-250: the market clock.                              *)
(***************************************************************************)
\* the early return without its save_state
ClosedReturnNoSave ==
    /\ Return("closed")
    /\ UNCHANGED <<stateFile, saves, pos, orders, lastTrade>>

\* the closed market's early return
ClosedReturn ==
    /\ stateFile' = SaveState(state)
    /\ saves' = saves + 1
    /\ Return("closed")
    /\ UNCHANGED <<pos, orders, lastTrade>>

ClockStep ==
    /\ pc = "clock"
    /\ \E is_open \in BOOLEAN :
        IF ~is_open
        THEN ClosedReturn
        ELSE /\ pc' = "sell"
             /\ idx' = 1
             /\ UNCHANGED <<stateFile, state, cash, account, ranked, bars, out, saves, pos,
                            orders, lastTrade>>
    /\ UNCHANGED <<settings, today, exc, unsaved, cycles, bstVars, scoreVars>>

\* one loop over ranked that sells and then buys entry by entry
AfterEntryInterleaved(phase, i) ==
    IF phase = "sell" THEN <<"buy", i>>
    ELSE IF i < Len(ranked) THEN <<"sell", i + 1>> ELSE <<"save", 0>>

\* the two for loops over ranked: the sell loop runs to its end, then the buy loop
AfterEntry(phase, i) ==
    IF i < Len(ranked) THEN <<phase, i + 1>>
    ELSE IF phase = "sell" THEN <<"buy", 1>> ELSE <<"save", 0>>

\* an entry is done and changed nothing
Continue(phase) ==
    /\ pc' = AfterEntry(phase, idx)[1]
    /\ idx' = AfterEntry(phase, idx)[2]
    /\ UNCHANGED <<state, cash, account, pos, orders, out, exc, lastTrade, unsaved>>

\* an order after which the proceeds of a sale are not added to cash
SubmitNoProceeds(phase, side, sym, qty, filled, amount) ==
    /\ orders' = Append(orders, Order(side, sym, qty))
    /\ pos' \in Fills(sym, filled)
    /\ cash' = IF amount > 0 THEN cash ELSE cash + amount
    /\ state' = Put(state, sym, FormatDay(today))
    /\ out' = Append(out, Line(phase, sym, qty, 0, FALSE, FALSE))
    /\ lastTrade' = [lastTrade EXCEPT ![sym] = today]
    /\ unsaved' = unsaved \ {sym}
    /\ pc' = AfterEntry(phase, idx)[1]
    /\ idx' = AfterEntry(phase, idx)[2]
    /\ UNCHANGED <<account, ranked, bars, exc>>

\* market_sell, market_buy: the order is accepted, and the lines after it run
Submit(phase, side, sym, qty, filled, amount) ==
    /\ orders' = Append(orders, Order(side, sym, qty))
    /\ pos' \in Fills(sym, filled)
    /\ cash' = cash + amount
    /\ state' = Put(state, sym, FormatDay(today))
    /\ out' = Append(out, Line(phase, sym, qty, 0, FALSE, FALSE))
    /\ lastTrade' = [lastTrade EXCEPT ![sym] = today]
    /\ unsaved' = unsaved \ {sym}
    /\ pc' = AfterEntry(phase, idx)[1]
    /\ idx' = AfterEntry(phase, idx)[2]
    /\ UNCHANGED <<account, ranked, bars, exc>>

\* market_sell, market_buy: the broker rejects the order and submit_order raises
Rejected(sym) ==
    /\ Raise(<<"APIError", sym>>, Traded)
    /\ UNCHANGED <<pos, orders, lastTrade>>

(***************************************************************************)
(* run_once, lines 252-262: the sell rule, one entry of ranked.            *)
(***************************************************************************)
\* the sell rule taken as "not rising": a flat position is sold too
ShouldSellNotRising(qty, short_avg, long_avg) == qty > 0 /\ ~RatLess(long_avg, short_avg)

ShouldSell(qty, short_avg, long_avg) == qty > 0 /\ RatLess(short_avg, long_avg)

SellStep ==
    /\ pc = "sell"
    /\ LET e == ranked[idx]
           qty == CurrentPositionQty(e.sym)
           proceeds == qty * e.latest
       IN  IF ShouldSell(qty, e.short_avg, e.long_avg)
           THEN \/ Submit("sell", "SELL", e.sym, qty, 0, proceeds)
                \/ Rejected(e.sym)
           ELSE Continue("sell") /\ UNCHANGED <<ranked, bars>>
    /\ UNCHANGED <<settings, stateFile, today, saves, cycles, bstVars, scoreVars>>

(***************************************************************************)
(* run_once, lines 264-285: the buy rule, one entry of ranked.             *)
(***************************************************************************)
UnderMax(qty) == qty + settings.shares_per_trade <= settings.max_shares

\* can_afford with a strict comparison
CanAffordStrict(cost) == cash > cost

\* a buy rule that never looks at cash
CanAffordAlways(cost) == TRUE

CanAfford(cost) == cash >= cost

\* the buy rule without its cooldown
WaitedEnoughAlways(waited) == TRUE

WaitedEnough(waited) == waited >= settings.wait_days

BuyStep ==
    /\ pc = "buy"
    /\ LET e == ranked[idx]
           waited == DaysSince(Get(state, e.sym), today)
           qty == CurrentPositionQty(e.sym)
           cost == settings.shares_per_trade * e.latest
           can_afford == CanAfford(cost)
           under_max == UnderMax(qty)
       IN  IF ~RatPos(e.trend)
           THEN Continue("buy") /\ UNCHANGED <<ranked, bars>>
           ELSE IF WaitedEnough(waited) /\ under_max /\ can_afford
           THEN \/ Submit("buy", "BUY", e.sym, settings.shares_per_trade,
                          qty + settings.shares_per_trade, 0 - cost)
                \/ Rejected(e.sym)
           ELSE /\ out' = Append(out, Line("no buy", e.sym, 0, waited, under_max, can_afford))
                /\ pc' = AfterEntry("buy", idx)[1]
                /\ idx' = AfterEntry("buy", idx)[2]
                /\ UNCHANGED <<state, cash, account, ranked, pos, bars, orders, exc, lastTrade,
                               unsaved>>
    /\ UNCHANGED <<settings, stateFile, today, saves, cycles, bstVars, scoreVars>>

(***************************************************************************)
(* run_once, lines 287-291: the state summary and save_state.              *)
(***************************************************************************)
SaveStep ==
    /\ pc = "save"
    /\ stateFile' = SaveState(state)
    /\ saves' = saves + 1
    /\ Return("done")
    /\ UNCHANGED <<settings, today, pos, orders, exc, lastTrade, unsaved, cycles, bstVars, scoreVars>>

(***************************************************************************)
(* src/src/bst.py.  A BSTNode is a record of nodes; a reference to a node  *)
(* is its index, and 0 is None.                                            *)
(***************************************************************************)
Keys == (0 - KeyMax)..KeyMax

BSTNode(key, value) == [key |-> key, value |-> value, left |-> 0, right |-> 0]

\* _insert_rec with the comparison turned round: smaller keys descend right
RECURSIVE InsertRecSwapped(_, _, _, _)
InsertRecSwapped(heap, node, key, value) ==
    IF node = 0 THEN <<Append(heap, BSTNode(key, value)), Len(heap) + 1>>
    ELSE IF key < heap[node].key
         THEN LET r == InsertRecSwapped(heap, heap[node].right, key, value)
              IN  <<[r[1] EXCEPT ![node].right = r[2]], node>>
         ELSE LET l == InsertRecSwapped(heap, heap[node].left, key, value)
              IN  <<[l[1] EXCEPT ![node].left = l[2]], node>>

\* _insert_rec as a set would do it: a key already in the tree is not inserted
RECURSIVE InsertRecDedup(_, _, _, _)
InsertRecDedup(heap, node, key, value) ==
    IF node = 0 THEN <<Append(heap, BSTNode(key, value)), Len(heap) + 1>>
    ELSE IF key = heap[node].key THEN <<heap, node>>
    ELSE IF key > heap[node].key
         THEN LET r == InsertRecDedup(heap, heap[node].right, key, value)
              IN  <<[r[1] EXCEPT ![node].right = r[2]], node>>
         ELSE LET l == InsertRecDedup(heap, heap[node].left, key, value)
              IN  <<[l[1] EXCEPT ![node].left = l[2]], node>>

\* _insert_rec with >= for >: a key equal to the node's descends right
RECURSIVE InsertRecTiesRight(_, _, _, _)
InsertRecTiesRight(heap, node, key, value) ==
    IF node = 0 THEN <<Append(heap, BSTNode(key, value)), Len(heap) + 1>>
    ELSE IF key >= heap[node].key
         THEN LET r == InsertRecTiesRight(heap, heap[node].right, key, value)
              IN  <<[r[1] EXCEPT ![node].right = r[2]], node>>
         ELSE LET l == InsertRecTiesRight(heap, heap[node].left, key, value)
              IN  <<[l[1] EXCEPT ![node].left = l[2]], node>>

\* BST._insert_rec: <<the heap after the call, the node returned>>
RECURSIVE InsertRec(_, _, _, _)
InsertRec(heap, node, key, value) ==
    IF node = 0 THEN <<Append(heap, BSTNode(key, value)), Len(heap) + 1>>
    ELSE IF key > heap[node].key
         THEN LET r == InsertRec(heap, heap[node].right, key, value)
              IN  <<[r[1] EXCEPT ![node].right = r[2]], node>>
         ELSE LET l == InsertRec(heap, heap[node].left, key, value)
              IN  <<[l[1] EXCEPT ![node].left = l[2]], node>>

\* BST._reverse_inorder: the nodes in the order their values are appended
RECURSIVE ReverseInorder(_, _)
ReverseInorder(heap, node) ==
    IF node = 0 THEN <<>>
    ELSE ReverseInorder(heap, heap[node].right) \o <<node>>
         \o ReverseInorder(heap, heap[node].left)

\* BST.get_ranked_descending
GetRankedDescending ==
    LET visited == ReverseInorder(nodes, root)
    IN  [i \in 1..Len(visited) |-> nodes[visited[i]].value]

\* the keys of the nodes get_ranked_descending takes its values from
RankedKeys ==
    LET visited == ReverseInorder(nodes, root)
    IN  [i \in 1..Len(visited) |-> nodes[visited[i]].key]

\* _count_less_rec with <= for <: keys equal to the threshold are counted
RECURSIVE CountLessRecInclusive(_, _, _)
CountLessRecInclusive(heap, node, threshold) ==
    IF node = 0 THEN 0
    ELSE (IF heap[node].key <= threshold THEN 1 ELSE 0)
         + CountLessRecInclusive(heap, heap[node].left, threshold)
         + CountLessRecInclusive(heap, heap[node].right, threshold)

\* BST._count_less_rec
RECURSIVE CountLessRec(_, _, _)
CountLessRec(heap, node, threshold) ==
    IF node = 0 THEN 0
    ELSE (IF heap[node].key < threshold THEN 1 ELSE 0)
         + CountLessRec(heap, heap[node].left, threshold)
         + CountLessRec(heap, heap[node].right, threshold)

\* BST.count_less_than
CountLessThan(threshold) == CountLessRec(nodes, root, threshold)

\* get_max's loop with an if for the while: one step to the right
RightmostOneStep(heap, node) == IF heap[node].right # 0 THEN heap[node].right ELSE node

\* get_max's while loop: the node reached by following right until it is None
RECURSIVE Rightmost(_, _)
Rightmost(heap, node) ==
    IF heap[node].right # 0 THEN Rightmost(heap, heap[node].right) ELSE node

\* BST.get_max: None for an empty tree, else (key, value) of the rightmost node
GetMax ==
    IF root = 0 THEN None
    ELSE LET node == Rightmost(nodes, root) IN <<nodes[node].key, nodes[node].value>>

\* BST.insert
Insert ==
    /\ Len(inserted) < MaxInserts
    /\ \E key \in Keys, value \in Symbols :
        LET r == InsertRec(nodes, root, key, value)
        IN  /\ nodes' = r[1]
            /\ root' = r[2]
            /\ inserted' = Append(inserted, <<key, value>>)
    /\ UNCHANGED <<botVars, scoreVars>>

\* BST.__init__, beside a bot that never runs
InitBST ==
    /\ Init
    /\ settings = Config(2, 1)
    /\ ~stateFile.exists
    /\ pos = [s \in Symbols |-> 0]

NextBST == Insert

SpecBST == InitBST /\ [][NextBST]_vars

(***************************************************************************)
(* The scorer alone: lines 196-203 of rank_symbols for one symbol, on      *)
(* closes and windows of any shape.                                        *)
(***************************************************************************)
CloseSeqs == UNION {[1..n -> 1..MaxPrice] : n \in 1..MaxLen} \cup {<<1, 2, 3, 4, 5>>}

Windows == 1..(MaxLen + 1)

\* one scoring: nothing has been scored yet
Score ==
    /\ scoreArgs.closes = <<>>
    /\ \E closes \in CloseSeqs, short_window \in Windows, long_window \in Windows :
        /\ scoreArgs' = [closes |-> closes, short_window |-> short_window,
                         long_window |-> long_window]
        /\ scoreResult' = IF NotEnoughBars(closes, long_window) THEN <<>>
                          ELSE <<ScoreEntry("A", closes, short_window, long_window)>>
    /\ UNCHANGED <<botVars, bstVars>>

InitScore == InitBST

NextScore == Score

SpecScore == InitScore /\ [][NextScore]_vars

Next == RunOnce \/ ClockStep \/ SellStep \/ BuyStep \/ SaveStep

Spec == Init /\ [][Next]_vars

(***************************************************************************)
(* Properties of run_once (Spec).  The entry a step of a loop works on is  *)
(* ranked[idx]; a step that ends with pc' = "raised" is one whose order    *)
(* the broker rejected.                                                    *)
(***************************************************************************)
LastOrder(os) == os[Len(os)]

LastLine(ls) == ls[Len(ls)]

\* C1: within one cycle every SELL is submitted before any BUY: no SELL
\* follows a BUY in the cycle's orders.
C1_SellsBeforeBuys ==
    \A i, j \in 1..Len(orders) :
        i < j /\ orders[i].side = "BUY" => orders[j].side # "SELL"

\* a cycle that sold one symbol and then bought the other
C1_Witness ==
    \E i, j \in 1..Len(orders) :
        i < j /\ orders[i].side = "SELL" /\ orders[j].side = "BUY"

\* C2: a buy-pass entry with score > 0 is bought (sharesPerTrade shares) iff
\* it has waited waitDays, stays within maxShares and the running cash covers
\* the cost; a BUY takes the cost from the cash and sets the last-trade-day
\* to today; otherwise a no-buy line is printed and cash and cooldown stay.
\* An entry with score <= 0 gives no BUY and no line.
C2_BuyPass ==
    [][pc = "buy" /\ pc' # "raised" =>
        LET e == ranked[idx]
            spt == settings.shares_per_trade
            cost == spt * e.latest
            since == IF e.sym \in DOMAIN state
                     THEN today - (DayOfYear(state[e.sym]) - DayOfYear(Epoch))
                     ELSE NeverDays
            gates == /\ since >= settings.wait_days
                     /\ pos[e.sym] + spt <= settings.max_shares
                     /\ cash >= cost
        IN  IF e.trend[1] > 0
            THEN IF gates
                 THEN /\ orders' = Append(orders, Order("BUY", e.sym, spt))
                      /\ cash' = cash - cost
                      /\ DOMAIN state' = DOMAIN state \cup {e.sym}
                      /\ state'[e.sym] = FormatDay(today)
                      /\ \A s \in DOMAIN state \ {e.sym} : state'[s] = state[s]
                 ELSE /\ orders' = orders
                      /\ cash' = cash
                      /\ state' = state
                      /\ Len(out') = Len(out) + 1
                      /\ LastLine(out').kind = "no buy"
                      /\ LastLine(out').sym = e.sym
            ELSE /\ orders' = orders
                 /\ out' = out
                 /\ cash' = cash
                 /\ state' = state]_vars

\* the first entry was bought and the cash left does not cover the second,
\* which passes the other two gates
C2_Witness ==
    \E i, j \in 1..Len(out) :
        /\ i < j
        /\ out[i].kind = "buy"
        /\ out[j].kind = "no buy"
        /\ ~out[j].can_afford
        /\ out[j].under_max
        /\ out[j].waited >= settings.wait_days

\* C3: a sell-pass entry with a position > 0 and shortAverage < longAverage
\* gets exactly one SELL of the whole position, the cash grows by
\* quantity * latestPrice and the last-trade-day becomes today; any other
\* entry gets no SELL and leaves cash and cooldown alone.
C3_SellPass ==
    [][pc = "sell" /\ pc' # "raised" =>
        LET e == ranked[idx]
            qty == pos[e.sym]
        IN  IF qty > 0 /\ e.short_avg[1] * e.long_avg[2] < e.long_avg[1] * e.short_avg[2]
            THEN /\ orders' = Append(orders, Order("SELL", e.sym, qty))
                 /\ cash' = cash + qty * e.latest
                 /\ DOMAIN state' = DOMAIN state \cup {e.sym}
                 /\ state'[e.sym] = FormatDay(today)
                 /\ \A s \in DOMAIN state \ {e.sym} : state'[s] = state[s]
            ELSE /\ orders' = orders
                 /\ cash' = cash
                 /\ state' = state]_vars

\* a position of two shares, more than one trade buys, was sold whole, and a
\* flat position was passed over
C3_Witness ==
    /\ pc = "buy"
    /\ \E i \in 1..Len(orders) : orders[i].side = "SELL" /\ orders[i].qty = 2
    /\ \E i \in 1..Len(ranked) :
        /\ pos[ranked[i].sym] > 0
        /\ RatEq(ranked[i].short_avg, ranked[i].long_avg)
        /\ ranked[i].sym \notin Traded

\* C4: a cycle that finds the market closed submits no order, changes no
\* cooldown entry and still saves the cooldown state, as loaded, before it
\* returns.
C4_ClosedMarket ==
    [][pc = "clock" /\ pc' = "closed" =>
        /\ orders = <<>>
        /\ orders' = <<>>
        /\ pos' = pos
        /\ lastTrade' = lastTrade
        /\ saves = 0
        /\ saves' = 1
        /\ stateFile' = SaveState(LoadState(stateFile))]_vars

\* a closed-market cycle after a cycle that traded: there is a cooldown
\* entry to keep
C4_Witness ==
    /\ pc = "closed"
    /\ saves = 1
    /\ \E s \in Symbols : s \in DOMAIN stateFile.last_trade_day

\* C5: with the cooldown state persisted, a cycle k days after a symbol's
\* last trade gives it no BUY when k < waitDays (the no-buy line shows
\* waited = k) and lets it pass the cooldown gate when k >= waitDays; a
\* symbol never traded always passes the gate.
C5_Cooldown ==
    [][pc = "buy" /\ pc' # "raised" /\ ranked[idx].trend[1] > 0 =>
        LET e == ranked[idx]
            spt == settings.shares_per_trade
            k == today - lastTrade[e.sym]
            persisted == lastTrade[e.sym] >= 0 /\ e.sym \notin unsaved
            others == pos[e.sym] + spt <= settings.max_shares /\ cash >= spt * e.latest
            bought == orders' = Append(orders, Order("BUY", e.sym, spt))
        IN  /\ persisted /\ k < settings.wait_days =>
                /\ orders' = orders
                /\ LastLine(out').kind = "no buy"
                /\ LastLine(out').waited = k
            /\ persisted /\ k >= settings.wait_days => (bought <=> others)
            /\ lastTrade[e.sym] = -1 => (bought <=> others)]_vars

\* a later cycle turned a symbol down one day after its trade, for the
\* cooldown alone
C5_Witness ==
    /\ cycles >= 2
    /\ settings.wait_days = 2
    /\ \E i \in 1..Len(out) :
        /\ out[i].kind = "no buy"
        /\ out[i].waited = 1
        /\ out[i].under_max
        /\ out[i].can_afford
        /\ lastTrade[out[i].sym] = today - 1

C7_RankingSurvives ==
    pc = "raised" => exc[1] # "NotEnoughBars"

\* C8 as claimed: with shortWindow > longWindow the cycle does not run: no
\* ranking is produced and no order is submitted.
C8_MisconfigRejected ==
    settings.short_window > settings.long_window =>
        /\ pc \in {"idle", "raised"}
        /\ ranked = <<>>
        /\ orders = <<>>

(***************************************************************************)
(* Properties of the ordered score index (SpecBST).                        *)
(***************************************************************************)
BagOf(seq) ==
    [x \in {seq[i] : i \in 1..Len(seq)} |-> Cardinality({i \in 1..Len(seq) : seq[i] = x})]

InsertedValues == [i \in 1..Len(inserted) |-> inserted[i][2]]

\* C9: after any sequence of inserts into an empty tree, the keys of the
\* payloads get_ranked_descending returns are in non-increasing order.
C9_DescendingKeys ==
    \A i \in 1..(Len(RankedKeys) - 1) : RankedKeys[i] >= RankedKeys[i + 1]

\* a tree of three keys or more that branches both ways and holds a key twice
C9_Witness ==
    /\ Len(RankedKeys) >= 3
    /\ \E n \in 1..Len(nodes) : nodes[n].left # 0 /\ nodes[n].right # 0
    /\ \E i \in 1..(Len(RankedKeys) - 1) : RankedKeys[i] = RankedKeys[i + 1]
    /\ \E i \in 1..(Len(RankedKeys) - 1) : RankedKeys[i] > RankedKeys[i + 1]

\* C10: after n inserts, equal keys included, get_ranked_descending returns
\* n payloads: each inserted payload as often as it was inserted, none lost
\* and none merged.
C10_EveryPayloadOnce ==
    /\ Len(GetRankedDescending) = Len(inserted)
    /\ BagOf(GetRankedDescending) = BagOf(InsertedValues)

\* the same key inserted twice with different payloads, among other keys
C10_Witness ==
    /\ Len(inserted) >= 3
    /\ \E i, j \in 1..Len(inserted) :
        i < j /\ inserted[i][1] = inserted[j][1] /\ inserted[i][2] # inserted[j][2]
    /\ \E i, j \in 1..Len(inserted) : inserted[i][1] # inserted[j][1]
    /\ Len(GetRankedDescending) = Len(inserted)

Thresholds == (0 - KeyMax - 1)..(KeyMax + 1)

\* C11: for every sequence of inserts and every threshold t, count_less_than(t)
\* is the number of entries of get_ranked_descending whose key is strictly
\* below t; entries whose key equals t are not counted.
C11_CountBelow ==
    \A t \in Thresholds :
        CountLessThan(t) = Cardinality({i \in 1..Len(RankedKeys) : RankedKeys[i] < t})

\* a threshold that is a key of the tree, held twice, with keys below and above it
C11_Witness ==
    \E t \in Keys :
        /\ Cardinality({n \in 1..Len(nodes) : nodes[n].key = t}) = 2
        /\ \E n \in 1..Len(nodes) : nodes[n].key < t
        /\ \E n \in 1..Len(nodes) : nodes[n].key > t
        /\ CountLessThan(t) = 1

InsertedKeys == {inserted[i][1] : i \in 1..Len(inserted)}

\* C12: get_max returns None exactly when nothing was inserted, and otherwise
\* an inserted (key, payload) pair whose key is the greatest inserted key.
C12_Max ==
    /\ (GetMax = None) <=> (inserted = <<>>)
    /\ inserted # <<>> =>
        /\ \A k \in InsertedKeys : k <= GetMax[1]
        /\ \E i \in 1..Len(inserted) : inserted[i] = GetMax

\* the greatest key sits two steps right of the root
C12_Witness ==
    /\ root # 0
    /\ nodes[root].right # 0
    /\ nodes[nodes[root].right].right # 0
    /\ GetMax[1] = KeyMax

\* the inserted pairs as rank_symbols holds them before its sort
InsertedEntries == [i \in 1..Len(inserted) |-> [trend |-> <<inserted[i][1], 1>>, sym |-> inserted[i][2]]]

\* C17: the tree ranking and the array-sort ranking agree, ties included:
\* get_ranked_descending returns the payloads in the order rank_symbols'
\* stable descending sort gives the same pairs, so equal scores stay in
\* insertion order in both.
C17_TreeAgreesWithSort ==
    LET sorted == SortDescending(InsertedEntries)
    IN  GetRankedDescending = [i \in 1..Len(sorted) |-> sorted[i].sym]

\* two equal keys with different payloads, inserted with another key between
C17_Witness ==
    /\ Len(inserted) >= 3
    /\ \E i, j \in 1..Len(inserted) :
        /\ i + 1 < j
        /\ inserted[i][1] = inserted[j][1]
        /\ inserted[i][2] # inserted[j][2]
        /\ inserted[i + 1][1] # inserted[i][1]
    /\ Len(GetRankedDescending) = Len(inserted)

(***************************************************************************)
(* Claims about run_once's bookkeeping, checked under Spec.                *)
(***************************************************************************)
Running == pc \in {"clock", "sell", "buy", "save"}

\* C13: a cycle that runs to its end, with the market open or closed and with
\* or without orders, has persisted the cooldown state exactly once, as its
\* last step (nothing is persisted while it runs), and the persisted map holds
\* today's date at every symbol the cycle bought or sold.
C13_PersistedOnce ==
    /\ Running => saves = 0
    /\ pc \in {"done", "closed"} =>
        /\ saves = 1
        /\ stateFile.exists
        /\ \A i \in 1..Len(orders) :
            /\ orders[i].sym \in DOMAIN stateFile.last_trade_day
            /\ stateFile.last_trade_day[orders[i].sym] = FormatDay(today)

C13_Witness ==
    /\ pc = "done"
    /\ saves = 1
    /\ \E i, j \in 1..Len(orders) : orders[i].side = "SELL" /\ orders[j].side = "BUY"

\* the latest close of a ranked symbol, the price its orders are counted at
PriceOf(sym) == ranked[CHOOSE i \in 1..Len(ranked) : ranked[i].sym = sym].latest

RankOf(sym) == CHOOSE i \in 1..Len(ranked) : ranked[i].sym = sym

\* the proceeds of the SELLs of os minus the costs of its BUYs
RECURSIVE Flow(_)
Flow(os) ==
    IF os = <<>> THEN 0
    ELSE LET o == os[Len(os)]
             amount == o.qty * PriceOf(o.sym)
         IN  Flow(SubSeq(os, 1, Len(os) - 1))
                 + (IF o.side = "SELL" THEN amount ELSE 0 - amount)

\* C16: running cash is the account's cash as read once at the start of the
\* cycle, plus the proceeds of the cycle's SELLs, minus the costs of its BUYs;
\* when the buy pass evaluates the entry at idx, every BUY so far is for an
\* entry ranked before it.
C16_RunningCash ==
    pc \in {"sell", "buy", "save"} =>
        /\ cash = account + Flow(orders)
        /\ pc = "sell" => \A i \in 1..Len(orders) : orders[i].side = "SELL"
        /\ pc = "buy" =>
            \A i \in 1..Len(orders) : orders[i].side = "BUY" => RankOf(orders[i].sym) < idx

\* a BUY that the account's cash alone could not pay for
C16_Witness ==
    /\ pc \in {"buy", "save"}
    /\ \E i \in 1..Len(orders) :
        /\ orders[i].side = "BUY"
        /\ account < orders[i].qty * PriceOf(orders[i].sym)
        /\ \E j \in 1..(i - 1) : orders[j].side = "SELL"

\* C18: with starting cash, prices and held quantities all >= 0, running cash
\* is never negative, and the sell pass never takes it below the starting cash.
C18_CashNeverNegative ==
    /\ cash >= 0
    /\ pc = "sell" => cash >= account

\* a BUY has spent the last of the cash
C18_Witness ==
    /\ pc \in {"buy", "save"}
    /\ cash = 0
    /\ \E i \in 1..Len(orders) : orders[i].side = "BUY"

\* C19: no symbol gets both a SELL and a BUY in one cycle, whatever wait_days is.
C19_NoSellAndBuy ==
    \A i, j \in 1..Len(orders) :
        ~(orders[i].side = "SELL" /\ orders[j].side = "BUY" /\ orders[i].sym = orders[j].sym)

\* wait_days is 0 and the buy pass went over a symbol sold in the sell pass
\* that is under its maximum and affordable, and did not buy it
C19_Witness ==
    /\ pc = "save"
    /\ settings.wait_days = 0
    /\ \E i \in 1..Len(orders) :
        /\ orders[i].side = "SELL"
        /\ pos[orders[i].sym] + settings.shares_per_trade <= settings.max_shares
        /\ cash >= settings.shares_per_trade * PriceOf(orders[i].sym)

\* the cooldown map as the next cycle would load it from the file f
Loaded(f, sym) ==
    IF f.exists /\ sym \in DOMAIN f.last_trade_day THEN f.last_trade_day[sym] ELSE None

\* C20: a cycle changes the cooldown map only at symbols it submitted a SELL
\* or BUY for.  While it runs, its map holds at every other symbol (watched or
\* not) what it loaded, whatever no-buy decisions it made; and no step changes
\* the persisted entry of a symbol except the cycle's save, at a symbol the
\* cycle submitted an order for.
C20_MapFrame ==
    [][/\ pc' \in {"sell", "buy", "save"} =>
            \A sym \in Symbols \cup {Stale} :
                (\A i \in 1..Len(orders') : orders'[i].sym # sym)
                    => Get(state', sym) = Loaded(stateFile', sym)
       /\ stateFile' # stateFile =>
            /\ pc' \in {"done", "closed"}
            /\ \A sym \in Symbols \cup {Stale} :
                Loaded(stateFile', sym) # Loaded(stateFile, sym)
                    => \E i \in 1..Len(orders) : orders[i].sym = sym]_vars

\* a cycle with an order has persisted a map that still holds the entry of a
\* symbol off the watchlist and an older day's entry of a watched symbol
C20_Witness ==
    /\ pc = "done"
    /\ orders # <<>>
    /\ Loaded(stateFile, Stale) = FormatDay(0)
    /\ \E sym \in Symbols :
        /\ \A i \in 1..Len(orders) : orders[i].sym # sym
        /\ Loaded(stateFile, sym) # None
        /\ Loaded(stateFile, sym) # FormatDay(today)

(***************************************************************************)
(* Claims about the scorer, checked under SpecScore.                       *)
(***************************************************************************)
\* s[lo] + ... + s[hi]
RECURSIVE SumRange(_, _, _)
SumRange(s, lo, hi) == IF lo > hi THEN 0 ELSE s[lo] + SumRange(s, lo + 1, hi)

\* C15: for closes of length >= long_window and short_window <= long_window the
\* scorer gives long_avg = the mean of the last long_window closes, short_avg =
\* the mean of the last short_window closes, trend = short_avg - long_avg and
\* latest = the most recent close; closes [1,2,3,4,5] with windows 2 and 5 give
\* long_avg 3, short_avg 4.5, trend 1.5 and latest 5.
C15_Scorer ==
    LET cl == scoreArgs.closes
        sw == scoreArgs.short_window
        lw == scoreArgs.long_window
        n == Len(cl)
        sumL == SumRange(cl, n - lw + 1, n)
        sumS == SumRange(cl, n - sw + 1, n)
    IN  (1 <= sw /\ sw <= lw /\ lw <= n) =>
            /\ scoreResult # <<>>
            /\ LET e == scoreResult[1]
               IN  /\ e.long_avg[2] > 0 /\ e.long_avg[1] * lw = sumL * e.long_avg[2]
                   /\ e.short_avg[2] > 0 /\ e.short_avg[1] * sw = sumS * e.short_avg[2]
                   /\ e.trend[2] > 0
                   /\ e.trend[1] * (sw * lw) = (sumS * lw - sumL * sw) * e.trend[2]
                   /\ e.latest = cl[n]
                   /\ (cl = <<1, 2, 3, 4, 5>> /\ sw = 2 /\ lw = 5) =>
                        /\ e.long_avg[1] = 3 * e.long_avg[2]
                        /\ 2 * e.short_avg[1] = 9 * e.short_avg[2]
                        /\ 2 * e.trend[1] = 3 * e.trend[2]
                        /\ e.latest = 5

C15_Witness ==
    /\ scoreArgs = [closes |-> <<1, 2, 3, 4, 5>>, short_window |-> 2, long_window |-> 5]
    /\ scoreResult # <<>>
    /\ scoreResult[1].latest = 5

==============================================================================
